---------------------------- MODULE Spec2Model ----------------------------
(***************************************************************************)
(* One Snapmaker device session (SM2OutputDevice) with its two message     *)
(* objects, its in-flight HTTP requests and its write jobs, driven by the  *)
(* user (requestWrite, dismissing the auth prompt), the two poll timers,   *)
(* the HTTP replies of the printer and the discovery side of the plugin    *)
(* (token store, rediscovery of the device), and the device table that     *)
(* the discovery replies fill (SM2OutputDevicePlugin.__onData and          *)
(* SM2OutputDeviceManager._udpProcessor).  Texts that the discovery code   *)
(* cuts up are sequences of pieces: the separators "@", "|", ":" and     *)
(* separator-free words, so that split, rsplit, find and the slices are    *)
(* computed as Python computes them.                                       *)
(*                                                                         *)
(* Every handler runs to completion on the Qt main thread, so one action   *)
(* is one whole handler including the signal handlers it triggers          *)
(* synchronously.  A handler is an operator from a session record to a     *)
(* session record; the actions copy the record back into the variables.    *)
(*                                                                         *)
(* Behaviour of the host framework that the handlers rely on is modelled   *)
(* where the source calls it:                                              *)
(*  - PrinterOutputDevice.setConnectionState and                           *)
(*    NetworkedPrinterOutputDevice.setAuthenticationState assign and emit  *)
(*    their changed-signal only when the value differs;                    *)
(*  - PrinterOutputDevice.connect sets ConnectionState.Connecting;         *)
(*  - NetworkedPrinterOutputDevice._handleOnFinished drops a reply that    *)
(*    has no HTTP status code, turns Connecting into Connected, and then   *)
(*    runs the registered callback;                                        *)
(*  - Message.show/hide flip `visible` and emit inactivityTimerStart/Stop  *)
(*    only when the visibility changes;                                    *)
(*  - QNetworkReply.error() is NoError for a status below 400 and a        *)
(*    status-specific error from 400 on (401: AuthenticationRequiredError).*)
(*  - OutputDeviceManager.addOutputDevice ignores a device whose id is     *)
(*    already in its table.                                                *)
(*  - QUdpSocket.abort leaves the socket in UnconnectedState, and          *)
(*    QUdpSocket.writeDatagram on a socket in UnconnectedState first binds *)
(*    it to any address, which succeeds or fails.                          *)
(***************************************************************************)
EXTENDS Integers, Sequences, FiniteSets, TLC

VARIABLES
    connectionState,      \* PrinterOutputDevice._connection_state
    authenticationState,  \* NetworkedPrinterOutputDevice._authentication_state
    token,                \* SM2OutputDevice._token
    sending_gcode,        \* NetworkedPrinterOutputDevice._sending_gcode
    progress_visible,     \* PrintJobUploadProgressMessage.visible
    progress_timer,       \* PrintJobUploadProgressMessage._gTimer.isActive()
    need_auth_visible,    \* PrintJobNeedAuthMessage.visible
    need_auth_timer,      \* PrintJobNeedAuthMessage._gTimer.isActive()
    requests,             \* in-flight HTTP requests: kind -> how many
    jobs,                 \* WriteFileJobs started and not yet finished
    tokens,               \* plugin._tokens[device id], NoEntry when absent
    healthy,              \* the printer is idle and answers every request
    last,                 \* history: the last handler run and what it did
    devices,              \* OutputDeviceManager._output_devices: id -> device
    added,                \* id -> number of addOutputDevice calls made for it
    discovered,           \* SM2OutputDeviceManager._discovered_devices
    lastData,             \* history: the last discovery reply and its outcome
    windows,              \* Platform.isWindows()
    discover_timer,       \* SM2OutputDevicePlugin._discover_timer.isActive()
    discover_sockets,     \* SM2OutputDevicePlugin._discover_sockets
    preference,           \* the saved preference: the entry of the device id
    collecting            \* a DiscoverSocket is inside the loop of __collect

sessionVars == <<connectionState, authenticationState, token, sending_gcode,
                 progress_visible, progress_timer, need_auth_visible,
                 need_auth_timer, requests, jobs>>

pluginVars == <<devices, added, discovered, lastData>>

lifeVars == <<windows, discover_timer, discover_sockets, preference,
              collecting>>

vars == <<connectionState, authenticationState, token, sending_gcode,
          progress_visible, progress_timer, need_auth_visible,
          need_auth_timer, requests, jobs, tokens, healthy, last,
          devices, added, discovered, lastData,
          windows, discover_timer, discover_sockets, preference,
          collecting>>

-----------------------------------------------------------------------------
(* Bounds of the model                                                     *)

MaxInflight == 2
MaxJobs == 1
MaxQuiet == 1

-----------------------------------------------------------------------------
(* Value sets                                                              *)

ConnectionStates == {"Closed", "Connecting", "Connected", "Busy", "Error"}
AuthStates == {"NotAuthenticated", "AuthenticationRequested",
               "Authenticated", "AuthenticationDenied"}

\* resp.get("token") of a malformed /connect body is Python's None
None == "None"
NoEntry == "NoEntry"
Tokens == {"t1", "t2"}

Kinds == {"connect", "status", "upload", "disconnect"}

\* device status strings; UNKNOWN stands for every other or missing status
Statuses == {"IDLE", "RUNNING", "PAUSED", "STOPPED", "UNKNOWN"}

\* HTTP status codes the printer may answer with; NoCode is a reply without
\* any HTTP status (transport failure)
NoCode == 0
HttpCodes == {200, 202, 204, 401, 403, 500}

\* QNetworkReply.error() for a reply with the given HTTP status
ReplyError(code) ==
    IF code = NoCode THEN "TransportError"
    ELSE IF code < 400 THEN "NoError"
    ELSE IF code = 401 THEN "AuthenticationRequiredError"
    ELSE "HttpError"

Truthy(t) == t # "" /\ t # None

-----------------------------------------------------------------------------
(* The session record the handlers work on                                 *)

Cur ==
    [connectionState |-> connectionState,
     authenticationState |-> authenticationState,
     token |-> token,
     sending_gcode |-> sending_gcode,
     progress_visible |-> progress_visible,
     progress_timer |-> progress_timer,
     need_auth_visible |-> need_auth_visible,
     need_auth_timer |-> need_auth_timer,
     requests |-> requests,
     jobs |-> jobs,
     issued |-> <<>>,     \* requests sent by this handler, in order
     shown |-> {},        \* titles of the Messages this handler showed
     emitted |-> {}]      \* signals this handler emitted

InFlight(s) ==
    s.requests["connect"] + s.requests["status"] + s.requests["upload"]
        + s.requests["disconnect"]

\* NetworkedPrinterOutputDevice.get / postFormWithParts: one more request in
\* flight; the history keeps the token it carries and the state it left from
Send(s, kind) ==
    [s EXCEPT !.requests[kind] = @ + 1,
              !.issued = Append(@, [kind |-> kind,
                                    token |-> s.token,
                                    connectionState |-> s.connectionState,
                                    authenticationState |-> s.authenticationState,
                                    sending_gcode |-> s.sending_gcode])]

ShowMessage(s, title) == [s EXCEPT !.shown = @ \cup {title}]
Emit(s, sig) == [s EXCEPT !.emitted = @ \cup {sig}]


-----------------------------------------------------------------------------
(* Message objects (UM.Message with the timer hooks of the two subclasses) *)

\* PrintJobUploadProgressMessage.show: Message.show, inactivityTimerStart
\* reaches _startTimer
progressShow(s) ==
    IF s.progress_visible THEN s
    ELSE [s EXCEPT !.progress_visible = TRUE, !.progress_timer = TRUE]

\* Message.hide on the progress message, inactivityTimerStop reaches _stopTimer
progressHide(s) ==
    IF ~s.progress_visible THEN s
    ELSE [s EXCEPT !.progress_visible = FALSE, !.progress_timer = FALSE]

\* Message.show on PrintJobNeedAuthMessage
needAuthShow(s) ==
    IF s.need_auth_visible THEN s
    ELSE [s EXCEPT !.need_auth_visible = TRUE, !.need_auth_timer = TRUE]

\* Message.hide on PrintJobNeedAuthMessage
needAuthHide(s) ==
    IF ~s.need_auth_visible THEN s
    ELSE [s EXCEPT !.need_auth_visible = FALSE, !.need_auth_timer = FALSE]

-----------------------------------------------------------------------------
(* SM2OutputDevice                                                         *)

\* _queryParams calls self._token.encode(): it raises when the token is None
queryParamsRaises(s) == s.token = None

checkStatus(s) == Send(s, "status")

hello(s) == IF queryParamsRaises(s) THEN s ELSE Send(s, "connect")

byebye(s) == IF Truthy(s.token) THEN Send(s, "disconnect") ELSE s

\* faulty variant of _upload: the `if not self._token: return` is missing
upload_NoTokenCheck(s) == Send(s, "upload")

upload(s) == IF ~Truthy(s.token) THEN s ELSE Send(s, "upload")

\* faulty variant of _onConnectionStateChanged: `not self._progress.visible`
\* is missing
onConnectionStateChanged_NoVisibleCheck(s) ==
    IF /\ s.connectionState = "Connected"
       /\ s.authenticationState = "Authenticated"
       /\ s.sending_gcode
    THEN upload(progressShow(s))
    ELSE s

onConnectionStateChanged(s) ==
    IF /\ s.connectionState = "Connected"
       /\ s.authenticationState = "Authenticated"
       /\ s.sending_gcode
       /\ ~s.progress_visible
    THEN upload(progressShow(s))
    ELSE s

\* PrinterOutputDevice.setConnectionState: assigns and emits
\* connectionStateChanged only when the state differs
setConnectionState(s, st) ==
    IF s.connectionState = st THEN s
    ELSE onConnectionStateChanged(
             Emit([s EXCEPT !.connectionState = st], "connectionStateChanged"))

onAuthenticationStateChanged(s) ==
    IF s.authenticationState = "Authenticated" THEN needAuthHide(s)
    ELSE IF s.authenticationState = "AuthenticationRequested" THEN needAuthShow(s)
    ELSE IF s.authenticationState = "AuthenticationDenied"
         THEN needAuthHide([s EXCEPT !.token = "", !.sending_gcode = FALSE])
    ELSE s

\* NetworkedPrinterOutputDevice.setAuthenticationState: assigns and emits
\* authenticationStateChanged only when the state differs
setAuthenticationState(s, st) ==
    IF s.authenticationState = st THEN s
    ELSE onAuthenticationStateChanged(
             Emit([s EXCEPT !.authenticationState = st],
                  "authenticationStateChanged"))

\* faulty variant of setDeviceStatus: "STOPPED" is missing from the busy tuple
setDeviceStatus_StoppedMissing(s, status) ==
    IF status = "IDLE" THEN
        IF s.connectionState # "Connected"
        THEN setConnectionState(s, "Connected") ELSE s
    ELSE IF status \in {"RUNNING", "PAUSED"} THEN
        IF s.connectionState # "Busy"
        THEN setConnectionState(s, "Busy") ELSE s
    ELSE s

setDeviceStatus(s, status) ==
    IF status = "IDLE" THEN
        IF s.connectionState # "Connected"
        THEN setConnectionState(s, "Connected") ELSE s
    ELSE IF status \in {"RUNNING", "PAUSED", "STOPPED"} THEN
        IF s.connectionState # "Busy"
        THEN setConnectionState(s, "Busy") ELSE s
    ELSE s

\* PrinterOutputDevice.connect, the only `connect` an SM2OutputDevice has:
\* it sends nothing
connect(s) == setConnectionState(s, "Connecting")

\* faulty variant of requestWrite: the Busy check is missing
requestWrite_NoBusyCheck(s) ==
    IF s.progress_visible \/ s.need_auth_visible THEN s
    ELSE LET s1 == [s EXCEPT !.sending_gcode = TRUE]
             s2 == setConnectionState(s1, "Closed")
             s3 == setAuthenticationState(s2, "NotAuthenticated")
             s4 == Emit(s3, "writeStarted")
         IN  ShowMessage([s4 EXCEPT !.jobs = @ + 1], "Preparing for upload")

requestWrite(s) ==
    IF s.connectionState = "Busy" THEN ShowMessage(s, "Unable to upload")
    ELSE IF s.progress_visible \/ s.need_auth_visible THEN s
    ELSE LET s1 == [s EXCEPT !.sending_gcode = TRUE]
             s2 == setConnectionState(s1, "Closed")
             s3 == setAuthenticationState(s2, "NotAuthenticated")
             s4 == Emit(s3, "writeStarted")
         IN  ShowMessage([s4 EXCEPT !.jobs = @ + 1], "Preparing for upload")

onWriteJobFinished(s) == hello([s EXCEPT !.jobs = @ - 1])

\* faulty variant of the GET /status branch: a 200 reply resets the
\* connection state (as requestWrite does) before it applies the status
onStatusReply_ResetFirst(s, code, body) ==
    IF code = 200
    THEN setDeviceStatus(
             setConnectionState(setAuthenticationState(s, "Authenticated"),
                                "Closed"),
             body)
    ELSE IF code = 401 THEN setAuthenticationState(s, "AuthenticationDenied")
    ELSE IF code = 204 THEN setAuthenticationState(s, "AuthenticationRequested")
    ELSE setAuthenticationState(s, "NotAuthenticated")

\* the GET /status branch of _onRequestFinished
onStatusReply(s, code, body) ==
    IF code = 200
    THEN setDeviceStatus(setAuthenticationState(s, "Authenticated"), body)
    ELSE IF code = 401 THEN setAuthenticationState(s, "AuthenticationDenied")
    ELSE IF code = 204 THEN setAuthenticationState(s, "AuthenticationRequested")
    ELSE setAuthenticationState(s, "NotAuthenticated")

\* the POST /connect branch of _onRequestFinished
onConnectReply(s, code, body) ==
    IF code = 200 THEN checkStatus([s EXCEPT !.token = body])
    ELSE IF code = 403 /\ Truthy(s.token) THEN connect([s EXCEPT !.token = ""])
    ELSE ShowMessage(setConnectionState(s, "Closed"), "Error")

\* the POST /upload branch of _onRequestFinished; writeFinished runs _byebye
onUploadReply(s) ==
    LET s1 == progressHide(s)
        s2 == byebye(Emit(s1, "writeFinished"))
        s3 == [s2 EXCEPT !.sending_gcode = FALSE]
    IN  ShowMessage(s3, "Sent to")

onRequestFinished(s, kind, code, body) ==
    IF ReplyError(code) \notin {"NoError", "AuthenticationRequiredError"}
    THEN ShowMessage(setConnectionState(s, "Closed"), "Error")
    ELSE IF code = NoCode THEN s
    ELSE IF kind = "status" THEN onStatusReply(s, code, body)
    ELSE IF kind = "connect" THEN onConnectReply(s, code, body)
    ELSE IF kind = "upload" THEN onUploadReply(s)
    ELSE s

\* NetworkedPrinterOutputDevice._handleOnFinished, which runs the callback
\* registered for the request: _onRequestFinished, or for /disconnect the
\* lambda of _byebye
handleOnFinished(s, kind, code, body) ==
    IF code = NoCode THEN s
    ELSE LET s1 == IF s.connectionState = "Connecting"
                   THEN setConnectionState(s, "Connected") ELSE s
         IN  IF kind = "disconnect" THEN setConnectionState(s1, "Closed")
             ELSE onRequestFinished(s1, kind, code, body)

\* the user closes the auth prompt (it is created dismissable)
dismissNeedAuth(s) == needAuthHide(s)

-----------------------------------------------------------------------------
(* Plugin side: token store and rediscovery                                *)

\* SM2OutputDeviceManager.addOutputDevice for a device already in the table
addOutputDevice(s, store, status) ==
    setDeviceStatus(IF store # NoEntry THEN [s EXCEPT !.token = store] ELSE s,
                    status)

\* faulty variant of the per-device step of _saveTokens: a cleared token
\* removes the entry
saveTokens_DropCleared(store, tok) ==
    IF ~Truthy(tok) THEN NoEntry
    ELSE IF store = NoEntry \/ store # tok THEN tok ELSE store

\* _saveTokens for this device: the new value of its store entry
saveTokens(store, tok) ==
    IF Truthy(tok) /\ (store = NoEntry \/ store # tok) THEN tok ELSE store

-----------------------------------------------------------------------------
(* Discovery replies.  A string is a sequence of pieces: the three         *)
(* separators and words that contain no separator, so that the string      *)
(* functions of the source act on it as they act on the text.              *)

AT == "@"
BAR == "|"
COLON == ":"

\* sep in s
Contains(s, sep) == \E i \in 1..Len(s) : s[i] = sep

\* s.find(sep) and s.rfind(sep), 1-based, for a separator that occurs in s
Find(s, sep) == CHOOSE i \in 1..Len(s) :
                    s[i] = sep /\ \A j \in 1..(i - 1) : s[j] # sep
RFind(s, sep) == CHOOSE i \in 1..Len(s) :
                     s[i] = sep /\ \A j \in (i + 1)..Len(s) : s[j] # sep

\* s.split(sep): the list of the parts between the separators
RECURSIVE Split(_, _)
Split(s, sep) ==
    IF ~Contains(s, sep) THEN <<s>>
    ELSE <<SubSeq(s, 1, Find(s, sep) - 1)>>
             \o Split(SubSeq(s, Find(s, sep) + 1, Len(s)), sep)

\* s.rsplit(sep, 1) of a string that contains sep
RSplit1(s, sep) ==
    <<SubSeq(s, 1, RFind(s, sep) - 1), SubSeq(s, RFind(s, sep) + 1, Len(s))>>

\* s.startswith(prefix)
StartsWith(s, prefix) ==
    Len(s) >= Len(prefix) /\ SubSeq(s, 1, Len(prefix)) = prefix

\* "Snapmaker 2", the prefix __onData asks of the model
FamilyPrefix == <<"Snapmaker 2">>

\* "{}@{}".format(name, model)
deviceId(name, model) == name \o <<AT>> \o model

\* the segments of a reply that __onData takes for key:value pairs
Keyed(parts) == {i \in 2..Len(parts) : Contains(parts[i], COLON)}

\* `key, value = part.split(":")` raises ValueError unless the part has
\* exactly one ":"
unpackRaises(parts) ==
    \E i \in Keyed(parts) : Len(Split(parts[i], COLON)) # 2

\* properties.get(key, default) of the dict the loop builds: the value of
\* the last segment with that key
propertiesGet(parts, key, default) ==
    LET I == {i \in Keyed(parts) : Split(parts[i], COLON)[1] = key}
        last_i == CHOOSE i \in I : \A j \in I : j <= i
    IN  IF I = {} THEN default ELSE Split(parts[last_i], COLON)[2]

\* the store entry of an id: the model keeps the entry of one device
DeviceId == deviceId(<<"n">>, <<"Snapmaker 2", " A350">>)
\* faulty variant of the lookup: the stored entry is never used
tokensGet_AlwaysEmpty(store, id) == ""

tokensGet(store, id) == IF id = DeviceId /\ store # NoEntry THEN store ELSE ""

\* faulty variant of SM2OutputDevice.__init__: the id is split at its first
\* "@" (split) instead of its last (rsplit)
newDevice_SplitFirst(id, address, tok) ==
    [address |-> address, token |-> tok,
     name |-> SubSeq(id, 1, Find(id, AT) - 1),
     model |-> SubSeq(id, Find(id, AT) + 1, Len(id)),
     connectionState |-> "Closed"]

\* SM2OutputDevice.__init__: name and model come from splitting the id
newDevice(id, address, tok) ==
    [address |-> address, token |-> tok,
     name |-> RSplit1(id, AT)[1], model |-> RSplit1(id, AT)[2],
     connectionState |-> "Closed"]

\* the state of the plugin side a reply handler works on
CurPlugin == [devices |-> devices, added |-> added, discovered |-> discovered,
              created |-> {}, raised |-> FALSE]

\* OutputDeviceManager.addOutputDevice: one more call for the id; the table
\* takes the device unless it already holds the id
managerAddOutputDevice(p, id, dev) ==
    [p EXCEPT !.added = (id :> ((IF id \in DOMAIN p.added
                                 THEN p.added[id] ELSE 0) + 1)) @@ @,
              !.devices = IF id \in DOMAIN @ THEN @ ELSE (id :> dev) @@ @,
              !.created = @ \cup {id}]

\* faulty variant of __onData: the test of the model prefix is missing
onData_NoFamilyCheck(p, msg, store) ==
    LET parts == Split(msg, BAR)
        name == RSplit1(parts[1], AT)[1]
        address == RSplit1(parts[1], AT)[2]
        model == propertiesGet(parts, <<"model">>, <<>>)
        device_id == deviceId(name, model)
    IN  IF ~Contains(parts[1], AT) THEN p
        ELSE IF unpackRaises(parts) THEN [p EXCEPT !.raised = TRUE]
        ELSE IF device_id \in DOMAIN p.devices THEN p
        ELSE managerAddOutputDevice(
                 p, device_id,
                 newDevice(device_id, address, tokensGet(store, device_id)))

\* SM2OutputDevicePlugin.__onData
onData(p, msg, store) ==
    LET parts == Split(msg, BAR)
        name == RSplit1(parts[1], AT)[1]
        address == RSplit1(parts[1], AT)[2]
        model == propertiesGet(parts, <<"model">>, <<>>)
        device_id == deviceId(name, model)
    IN  IF ~Contains(parts[1], AT) THEN p
        ELSE IF unpackRaises(parts) THEN [p EXCEPT !.raised = TRUE]
        ELSE IF ~StartsWith(model, FamilyPrefix) THEN p
        ELSE IF device_id \in DOMAIN p.devices THEN p
        ELSE managerAddOutputDevice(
                 p, device_id,
                 newDevice(device_id, address, tokensGet(store, device_id)))

-----------------------------------------------------------------------------
(* Discovery replies in SM2OutputDeviceManager.py                          *)

\* s.find(pat) for a pattern of several pieces: the 0-based index of the
\* first occurrence, -1 when there is none
FindSub(s, pat) ==
    LET I == {i \in 1..(Len(s) - Len(pat) + 1) :
                 SubSeq(s, i, i + Len(pat) - 1) = pat}
    IN  IF I = {} THEN -1 ELSE (CHOOSE i \in I : \A j \in I : i <= j) - 1

\* s[a:b] for indexes that are not negative
Slice(s, a, b) == SubSeq(s, a + 1, b)

ModelMark == <<BAR, "model", COLON>>
StatusMark == <<BAR, "status", COLON>>

\* the status text as setDeviceStatus compares it
statusOf(text) ==
    IF Len(text) = 1 /\ text[1] \in Statuses THEN text[1] ELSE "UNKNOWN"

\* a device of the table as the session record setDeviceStatus works on
sessionOf(dev) ==
    [connectionState |-> dev.connectionState,
     authenticationState |-> "NotAuthenticated",
     token |-> dev.token,
     sending_gcode |-> FALSE,
     progress_visible |-> FALSE, progress_timer |-> FALSE,
     need_auth_visible |-> FALSE, need_auth_timer |-> FALSE,
     requests |-> [k \in Kinds |-> 0], jobs |-> 0,
     issued |-> <<>>, shown |-> {}, emitted |-> {}]

\* SM2OutputDeviceManager._parse for a reply that has "@" before "|model:";
\* `none` marks the tuple of Nones
parse(resp) ==
    LET p_model == FindSub(resp, ModelMark)
        p_status == FindSub(resp, StatusMark)
        id == Slice(resp, 0, p_model)
    IN  IF p_model # 0 /\ p_status # 0
        THEN [none |-> FALSE, id |-> id,
              name |-> Slice(id, 0, RFind(id, AT) - 1),
              model |-> Slice(resp, p_model + Len(ModelMark), p_status),
              status |-> Slice(resp, p_status + Len(StatusMark), Len(resp))]
        ELSE [none |-> TRUE, id |-> <<>>, name |-> <<>>, model |-> <<>>,
              status |-> <<>>]

\* one round of the loop of SM2OutputDeviceManager.addOutputDevice
addParsed(p, ip, r, store) ==
    IF r.none THEN p
    ELSE LET p1 == IF r.id \in DOMAIN p.devices THEN p
                   ELSE managerAddOutputDevice(
                            p, r.id,
                            [address |-> ip, token |-> "", name |-> r.name,
                             model |-> r.model, connectionState |-> "Closed"])
             key == deviceId(r.name, r.model)
             d1 == IF key = DeviceId /\ store # NoEntry
                   THEN [p1.devices[r.id] EXCEPT !.token = store]
                   ELSE p1.devices[r.id]
             s == setDeviceStatus(sessionOf(d1), statusOf(r.status))
         IN  [p1 EXCEPT !.devices[r.id] =
                            [d1 EXCEPT !.connectionState = s.connectionState]]

\* SM2OutputDeviceManager._udpProcessor for one pending datagram, with the
\* addOutputDevice that discoveredDevicesChanged runs
udpProcessor(p, ip, msg, store) ==
    LET found == IF FindSub(msg, ModelMark) # -1 /\ FindSub(msg, StatusMark) # -1
                 THEN {<<ip, msg>>} ELSE {}
    IN  IF found # {} /\ p.discovered # found
        THEN addParsed([p EXCEPT !.discovered = found], ip, parse(msg), store)
        ELSE p

-----------------------------------------------------------------------------
(* Start, stop and the discovery tick of SM2OutputDevicePlugin, with the   *)
(* DiscoverSocket of one network interface.  The handlers work on a record *)
(* of the plugin's fields; probes, aborted and wrote count what the        *)
(* handler broadcast, which sockets it aborted and whether it wrote the    *)
(* preference.                                                             *)

CurLife ==
    [windows |-> windows,
     discover_timer |-> discover_timer,
     discover_sockets |-> discover_sockets,
     tokens |-> tokens,
     preference |-> preference,
     plugin |-> CurPlugin,
     token |-> token,      \* getToken() of the device, once it is in the table
     probes |-> 0, aborted |-> 0, wrote |-> FALSE]

\* _loadTokens: the store becomes what json.loads reads from the preference
loadTokens(q) == [q EXCEPT !.tokens = q.preference]

\* _saveTokens: the loop over the devices of the table, then setValue with
\* json.dumps of the store when an entry changed
pluginSaveTokens(q) ==
    LET new == IF DeviceId \in DOMAIN q.plugin.devices
               THEN saveTokens(q.tokens, q.token) ELSE q.tokens
    IN  IF new # q.tokens
        THEN [q EXCEPT !.tokens = new, !.preference = new, !.wrote = TRUE]
        ELSE q

\* DiscoverSocket.bind that succeeds: a raw socket on Windows, the QUdpSocket
\* elsewhere
bind(q) ==
    [socket |-> IF q.windows THEN "socket" ELSE "QUdpSocket",
     collect_timer |-> FALSE]

\* __prepare for one interface address, whose bind succeeds or fails
prepare(q, bound) ==
    [q EXCEPT !.discover_sockets = IF bound THEN <<bind(q)>> ELSE <<>>]

\* DiscoverSocket.discover: the broadcast, and on the raw socket the start of
\* the collect timer
socketDiscover(sock) ==
    IF sock.socket = "QUdpSocket" THEN sock
    ELSE [sock EXCEPT !.collect_timer = TRUE]

\* DiscoverSocket.abort
socketAbort(sock) ==
    IF sock.socket = None THEN sock ELSE [sock EXCEPT !.socket = None]

\* __discover
discover(q, bound) ==
    LET q1 == IF q.discover_sockets = <<>> THEN prepare(q, bound) ELSE q
        q2 == [q1 EXCEPT
                  !.discover_sockets =
                      [i \in DOMAIN @ |-> socketDiscover(@[i])],
                  !.probes = @ + Len(q1.discover_sockets)]
    IN  pluginSaveTokens(q2)

\* start, with the answer of _isSM2Container
start(q, sm2) ==
    IF sm2 /\ ~q.discover_timer
    THEN [loadTokens(q) EXCEPT !.discover_timer = TRUE]
    ELSE q

\* stop: the sockets of the list are aborted, then the list is cleared, which
\* releases the DiscoverSocket objects together with their collect timers
stop(q) ==
    LET socks == [i \in DOMAIN q.discover_sockets |->
                      socketAbort(q.discover_sockets[i])]
        q1 == [q EXCEPT
                  !.discover_timer = FALSE,
                  !.aborted = Cardinality({i \in DOMAIN socks :
                                              socks[i].socket = None}),
                  !.discover_sockets = <<>>]
    IN  pluginSaveTokens(q1)

\* dataReady of a socket reaches __onData
dataReady(q, msg) ==
    [q EXCEPT !.plugin = onData(q.plugin, msg, q.tokens)]

\* __read: the pending datagrams of the QUdpSocket
read(q, msgs) ==
    IF msgs = <<>> THEN q ELSE dataReady(q, msgs[1])

\* __collect of socket i, run by its single-shot timer: nothing for an
\* aborted socket or a QUdpSocket, else the datagrams that arrive before
\* recvfrom times out
collect(q, i, msgs) ==
    LET q1 == [q EXCEPT !.discover_sockets[i].collect_timer = FALSE]
    IN  IF q.discover_sockets[i].socket \in {None, "QUdpSocket"} THEN q1
        ELSE IF msgs = <<>> THEN q1 ELSE dataReady(q1, msgs[1])

-----------------------------------------------------------------------------
(* Actions                                                                 *)

Event(op, kind, code, body, s) ==
    [op |-> op, kind |-> kind, code |-> code, body |-> body,
     issued |-> s.issued, shown |-> s.shown, emitted |-> s.emitted,
     repeat |-> /\ op = "reply"
                /\ last.op = "reply"
                /\ last.kind = kind /\ last.code = code /\ last.body = body]

Apply(s) ==
    /\ connectionState' = s.connectionState
    /\ authenticationState' = s.authenticationState
    /\ token' = s.token
    /\ sending_gcode' = s.sending_gcode
    /\ progress_visible' = s.progress_visible
    /\ progress_timer' = s.progress_timer
    /\ need_auth_visible' = s.need_auth_visible
    /\ need_auth_timer' = s.need_auth_timer
    /\ requests' = s.requests
    /\ jobs' = s.jobs

Step(op, kind, code, body, s) ==
    /\ InFlight(s) <= MaxInflight
    /\ s.jobs <= MaxJobs
    /\ Apply(s)
    /\ last' = Event(op, kind, code, body, s)
    /\ UNCHANGED <<healthy, pluginVars, lifeVars>>

RequestWrite ==
    /\ Step("requestWrite", "-", NoCode, "-", requestWrite(Cur))
    /\ UNCHANGED tokens

WriteJobFinished ==
    /\ jobs > 0
    /\ Step("writeJobFinished", "-", NoCode, "-", onWriteJobFinished(Cur))
    /\ UNCHANGED tokens

\* what the printer can put in the body of a reply
Bodies(kind, code) ==
    IF code # 200 THEN {"-"}
    ELSE IF kind = "status" THEN Statuses
    ELSE IF kind = "connect" THEN Tokens \cup {None}
    ELSE {"-"}

\* the answers of an idle printer that accepts the session: 200, with status
\* IDLE on /status and with a token on /connect
Normal(kind, code, body) ==
    /\ code = 200
    /\ kind = "status" => body = "IDLE"
    /\ kind = "connect" => body \in Tokens

\* the reply of one in-flight request of the kind arrives
ReplyOf(kind) ==
    \E code \in HttpCodes \cup {NoCode} :
        \E body \in Bodies(kind, code) :
            /\ requests[kind] > 0
            /\ healthy => Normal(kind, code, body)
            /\ Step("reply", kind, code, body,
                    handleOnFinished([Cur EXCEPT !.requests[kind] = @ - 1],
                                     kind, code, body))
            /\ UNCHANGED tokens

Reply == \E kind \in Kinds : ReplyOf(kind)

\* PrintJobNeedAuthMessage._gTimer fires: _onCheck
NeedAuthTick ==
    /\ need_auth_timer
    /\ Step("needAuthTick", "-", NoCode, "-", checkStatus(Cur))
    /\ UNCHANGED tokens

\* PrintJobUploadProgressMessage._gTimer fires: _heartbeat
Heartbeat ==
    /\ progress_timer
    /\ Step("heartbeat", "-", NoCode, "-", checkStatus(Cur))
    /\ UNCHANGED tokens

DismissNeedAuth ==
    /\ need_auth_visible
    /\ Step("dismiss", "-", NoCode, "-", dismissNeedAuth(Cur))
    /\ UNCHANGED tokens

Discovered ==
    \E status \in Statuses :
        /\ Step("discovered", "-", NoCode, status,
                addOutputDevice(Cur, tokens, status))
        /\ UNCHANGED tokens

SaveTokens ==
    /\ tokens' = saveTokens(tokens, token)
    /\ tokens' # tokens
    /\ last' = Event("saveTokens", "-", NoCode, "-", Cur)
    /\ UNCHANGED <<healthy, sessionVars, pluginVars, lifeVars>>

\* the discovery replies of the model, each with the fields the printer
\* composed it from: "{name}@{address}", the model and the status segment in
\* either order, and possibly one further segment at the end; Absent marks
\* a field that the reply lacks
Absent == <<>>
Senders == {[name |-> <<"n">>, address |-> <<"a1">>],
            [name |-> <<"n">>, address |-> <<"a2">>],
            [name |-> <<"n", AT, "m">>, address |-> <<"a1">>],
            [name |-> <<"n">>, address |-> Absent]}
Models == {<<"Snapmaker 2", " A350">>, <<"Snapmaker", " J1">>}
ReplyStatuses == {<<"IDLE">>, <<"RUNNING">>}
ExtraSegs == {<<"x", COLON, "y">>, <<"x", COLON, "y", COLON, "z">>, <<"x">>}

Segment(key, value) ==
    IF value = Absent THEN Absent ELSE <<key, COLON>> \o value

RECURSIVE Datagram(_, _)
Datagram(head, segs) ==
    IF segs = <<>> THEN head
    ELSE IF Head(segs) = Absent THEN Datagram(head, Tail(segs))
    ELSE Datagram(head \o <<BAR>> \o Head(segs), Tail(segs))

MakeReply(sender, model, status, extra, statusFirst) ==
    LET head == IF sender.address = Absent THEN sender.name
                ELSE sender.name \o <<AT>> \o sender.address
        core == IF statusFirst
                THEN <<Segment("status", status), Segment("model", model)>>
                ELSE <<Segment("model", model), Segment("status", status)>>
    IN  [msg |-> Datagram(head, core \o <<extra>>),
         base |-> Datagram(head, core),
         name |-> sender.name, address |-> sender.address,
         model |-> model, status |-> status, extra |-> extra]

Replies ==
    {MakeReply(sender, model, status, extra, statusFirst) :
        sender \in Senders, model \in Models \cup {Absent},
        status \in ReplyStatuses \cup {Absent},
        extra \in ExtraSegs \cup {Absent}, statusFirst \in BOOLEAN}
    \cup {MakeReply([name |-> <<"n">>, address |-> <<"a1">>],
                    <<"Snapmaker 2", AT, "x">>, <<"IDLE">>, Absent, FALSE)}

NoReply == MakeReply([name |-> <<>>, address |-> Absent], Absent, Absent,
                     Absent, FALSE)

\* the plugin side after a reply handler has run
DataStep(reply, r) ==
    /\ devices' = r.devices
    /\ added' = r.added
    /\ discovered' = r.discovered
    /\ lastData' = [reply |-> reply, created |-> r.created,
                     raised |-> r.raised]
    /\ UNCHANGED <<sessionVars, tokens, healthy, last, lifeVars>>

\* DiscoverSocket.dataReady reaches __onData with one reply
OnData ==
    \E reply \in Replies :
        DataStep(reply, onData(CurPlugin, reply.msg, tokens))

\* the replies that reach SM2OutputDeviceManager in the model: those of one
\* printer seen at two addresses, model before status; the datagram comes
\* from the address the reply names
ManagerReplies ==
    {MakeReply(sender, model, status, extra, FALSE) :
        sender \in {x \in Senders : x.name = <<"n">> /\ x.address # Absent},
        model \in Models \cup {Absent},
        status \in ReplyStatuses \cup {Absent},
        extra \in ExtraSegs \cup {Absent}}

\* the plugin side after _udpProcessor has run; the history keeps the last
\* datagram that became _discovered_devices
ManagerStep(reply, r) ==
    /\ devices' = r.devices
    /\ added' = r.added
    /\ discovered' = r.discovered
    /\ lastData' = IF r.discovered = discovered THEN lastData
                   ELSE [reply |-> reply, created |-> r.created,
                         raised |-> r.raised]
    /\ UNCHANGED <<sessionVars, tokens, healthy, last, lifeVars>>

\* readyRead of a discovery socket reaches _udpProcessor
UdpProcessor ==
    \E reply \in ManagerReplies :
        ManagerStep(reply,
                    udpProcessor(CurPlugin, reply.address, reply.msg, tokens))

\* from now on the printer reports IDLE and answers normally
Recover ==
    /\ ~healthy
    /\ healthy' = TRUE
    /\ UNCHANGED <<sessionVars, tokens, last, pluginVars, lifeVars>>

Init ==
    /\ tokens \in {NoEntry, "t1"}
    /\ healthy = FALSE
    /\ token = IF tokens = NoEntry THEN "" ELSE tokens
    /\ connectionState = "Closed"
    /\ authenticationState = "NotAuthenticated"
    /\ sending_gcode = FALSE
    /\ progress_visible = FALSE
    /\ progress_timer = FALSE
    /\ need_auth_visible = FALSE
    /\ need_auth_timer = FALSE
    /\ requests = [k \in Kinds |-> 0]
    /\ jobs = 0
    /\ last = [op |-> "init", kind |-> "-", code |-> NoCode, body |-> "-",
               issued |-> <<>>, shown |-> {}, emitted |-> {},
               repeat |-> FALSE]
    /\ devices = (DeviceId :> newDevice(DeviceId, <<"a1">>, token))
    /\ added = (DeviceId :> 1)
    /\ discovered = {}
    /\ lastData = [reply |-> NoReply, created |-> {}, raised |-> FALSE]
    /\ windows = FALSE
    /\ discover_timer = TRUE
    /\ discover_sockets = <<>>
    /\ preference = tokens
    /\ collecting = FALSE

\* the plugin after start(), before any reply: the table is empty and the
\* token store holds an entry for DeviceId and for no other id; the session
\* variables hold the values a session is constructed with
InitPlugin ==
    /\ tokens = "t1"
    /\ healthy = FALSE
    /\ token = IF tokens = NoEntry THEN "" ELSE tokens
    /\ connectionState = "Closed"
    /\ authenticationState = "NotAuthenticated"
    /\ sending_gcode = FALSE
    /\ progress_visible = FALSE
    /\ progress_timer = FALSE
    /\ need_auth_visible = FALSE
    /\ need_auth_timer = FALSE
    /\ requests = [k \in Kinds |-> 0]
    /\ jobs = 0
    /\ last = [op |-> "init", kind |-> "-", code |-> NoCode, body |-> "-",
               issued |-> <<>>, shown |-> {}, emitted |-> {},
               repeat |-> FALSE]
    /\ devices = [id \in {} |-> {}]
    /\ added = [id \in {} |-> 0]
    /\ discovered = {}
    /\ lastData = [reply |-> NoReply, created |-> {}, raised |-> FALSE]
    /\ windows = FALSE
    /\ discover_timer = TRUE
    /\ discover_sockets = <<>>
    /\ preference = tokens
    /\ collecting = FALSE

TypeOK ==
    /\ connectionState \in ConnectionStates
    /\ authenticationState \in AuthStates
    /\ token \in Tokens \cup {"", None}
    /\ tokens \in Tokens \cup {NoEntry}
    /\ sending_gcode \in BOOLEAN
    /\ progress_visible \in BOOLEAN /\ progress_timer = progress_visible
    /\ need_auth_visible \in BOOLEAN /\ need_auth_timer = need_auth_visible
    /\ requests \in [Kinds -> 0..MaxInflight]
    /\ jobs \in 0..MaxJobs
    /\ healthy \in BOOLEAN
    /\ windows \in BOOLEAN
    /\ discover_timer \in BOOLEAN
    /\ Len(discover_sockets) <= 1
    /\ preference \in Tokens \cup {NoEntry}
    /\ collecting \in BOOLEAN

Next ==
    \/ RequestWrite
    \/ WriteJobFinished
    \/ Reply
    \/ NeedAuthTick
    \/ Heartbeat
    \/ DismissNeedAuth

\* the session of OutputDevice.py under OutputDevicePlugin.py, which hands the
\* stored token to the constructor and leaves a known device alone
Spec == Init /\ [][Next]_vars

\* the session under SM2OutputDeviceManager.py, whose discovery replies also
\* reach a known device, and whose discovery tick saves the tokens
NextManager == Next \/ Discovered \/ SaveTokens

SpecManager == Init /\ [][NextManager]_vars

\* the discovery side of OutputDevicePlugin.py: the replies that reach
\* __onData, from an empty device table
NextDiscovery == OnData

SpecDiscovery == InitPlugin /\ [][NextDiscovery]_vars

\* the discovery side of SM2OutputDeviceManager.py
NextManagerDiscovery == UdpProcessor

SpecManagerDiscovery == InitPlugin /\ [][NextManagerDiscovery]_vars

\* the session followed until the printer recovers.  The Qt event loop runs
\* every timer that stays active, delivers the reply of every request and
\* the finished signal of every write job; the user's actions (requestWrite,
\* dismissing the prompt) are not forced.
NextRecover == Next \/ Recover

Fairness ==
    /\ \A kind \in Kinds : WF_vars(ReplyOf(kind))
    /\ WF_vars(WriteJobFinished)
    /\ WF_vars(NeedAuthTick)
    /\ WF_vars(Heartbeat)

SpecRecover == Init /\ [][NextRecover]_vars /\ Fairness

-----------------------------------------------------------------------------
(* The plugin from its construction: start, stop, discovery and the        *)
(* session of the device it finds                                          *)

\* the reply of the printer of the model to a probe
DeviceReply ==
    MakeReply([name |-> <<"n">>, address |-> <<"a1">>],
              <<"Snapmaker 2", " A350">>, <<"IDLE">>, Absent, FALSE)

\* what arrives at a socket between two handlers: nothing or the reply
Arrivals == {<<>>, <<DeviceReply.msg>>}

LifeOps == {"start", "stop", "tick", "startDiscovery", "read", "collect"}

LifeEvent(op, q) ==
    [op |-> op, kind |-> "-", code |-> NoCode, body |-> "-",
     issued |-> <<>>, shown |-> {}, emitted |-> {}, repeat |-> FALSE,
     probes |-> q.probes, aborted |-> q.aborted, wrote |-> q.wrote]

\* the variables after a handler of the plugin has run; a device that the
\* handler created starts with the token it was constructed with.  The
\* handlers share the main thread: none starts while __collect loops.
LifeStep(op, q) ==
    /\ ~collecting
    /\ discover_timer' = q.discover_timer
    /\ discover_sockets' = q.discover_sockets
    /\ tokens' = q.tokens
    /\ preference' = q.preference
    /\ devices' = q.plugin.devices
    /\ added' = q.plugin.added
    /\ lastData' = IF op \in {"read", "collect"}
                   THEN [reply |-> DeviceReply, created |-> q.plugin.created,
                         raised |-> q.plugin.raised]
                   ELSE lastData
    /\ token' = IF DeviceId \in q.plugin.created
                THEN q.plugin.devices[DeviceId].token ELSE token
    /\ last' = LifeEvent(op, q)
    /\ UNCHANGED <<connectionState, authenticationState, sending_gcode,
                   progress_visible, progress_timer, need_auth_visible,
                   need_auth_timer, requests, jobs, healthy, discovered,
                   windows, collecting>>

\* globalContainerStackChanged with a Snapmaker machine or without
Start == \E sm2 \in BOOLEAN : LifeStep("start", start(CurLife, sm2))

\* globalContainerStackChanged with another machine, applicationShuttingDown
Stop == LifeStep("stop", stop(CurLife))

\* _discover_timer fires
Tick ==
    /\ discover_timer
    /\ \E bound \in BOOLEAN : LifeStep("tick", discover(CurLife, bound))

\* the output device manager asks for a discovery
StartDiscovery ==
    \E bound \in BOOLEAN : LifeStep("startDiscovery", discover(CurLife, bound))

\* readyRead of the QUdpSocket of the list
Read ==
    /\ \E i \in DOMAIN discover_sockets :
           discover_sockets[i].socket = "QUdpSocket"
    /\ \E msgs \in Arrivals : LifeStep("read", read(CurLife, msgs))

\* the collect timer of a socket of the list fires
Collect ==
    \E i \in DOMAIN discover_sockets :
        /\ discover_sockets[i].collect_timer
        /\ \E msgs \in Arrivals : LifeStep("collect", collect(CurLife, i, msgs))

\* the answers of the printer here: it grants a token and reports IDLE
\* (200), or it refuses the token (401)
LifeAnswer(e) ==
    e.op = "reply" => /\ e.code \in {200, 401}
                      /\ e.kind = "status" /\ e.code = 200 => e.body = "IDLE"
                      /\ e.kind = "connect" /\ e.code = 200 => e.body \in Tokens

\* the session of the device of the table, with at most MaxQuiet requests in
\* flight
LifeSession ==
    /\ DeviceId \in DOMAIN devices
    /\ Next
    /\ InFlight([requests |-> requests']) <= MaxQuiet
    /\ LifeAnswer(last')

\* the plugin as constructed: nothing loaded, no socket, no device; the
\* preference holds an entry for the device id or none
InitLifecycle ==
    /\ windows \in BOOLEAN
    /\ discover_timer = FALSE
    /\ discover_sockets = <<>>
    /\ preference \in {NoEntry, "t1"}
    /\ collecting = FALSE
    /\ tokens = NoEntry
    /\ healthy = FALSE
    /\ token = ""
    /\ connectionState = "Closed"
    /\ authenticationState = "NotAuthenticated"
    /\ sending_gcode = FALSE
    /\ progress_visible = FALSE
    /\ progress_timer = FALSE
    /\ need_auth_visible = FALSE
    /\ need_auth_timer = FALSE
    /\ requests = [k \in Kinds |-> 0]
    /\ jobs = 0
    /\ last = [op |-> "init", kind |-> "-", code |-> NoCode, body |-> "-",
               issued |-> <<>>, shown |-> {}, emitted |-> {},
               repeat |-> FALSE]
    /\ devices = [id \in {} |-> {}]
    /\ added = [id \in {} |-> 0]
    /\ discovered = {}
    /\ lastData = [reply |-> NoReply, created |-> {}, raised |-> FALSE]

NextLifecycle ==
    \/ Start
    \/ Stop
    \/ Tick
    \/ StartDiscovery
    \/ Read
    \/ Collect
    \/ LifeSession

SpecLifecycle == InitLifecycle /\ [][NextLifecycle]_vars

-----------------------------------------------------------------------------
(* One DiscoverSocket on the raw-socket path, its methods called in any    *)
(* order, with the loop of __collect taken one recvfrom at a time          *)

\* the variables after a step of the socket
SocketStep(sock, inLoop) ==
    /\ discover_sockets' = <<sock>>
    /\ collecting' = inLoop
    /\ UNCHANGED <<sessionVars, tokens, healthy, last, pluginVars, windows,
                   discover_timer, preference>>

\* discover(b"discover") on the socket
SocketDiscover ==
    /\ ~collecting
    /\ discover_sockets[1].socket # None
    /\ SocketStep(socketDiscover(discover_sockets[1]), FALSE)

\* abort() on the socket
SocketAbort ==
    /\ ~collecting
    /\ discover_sockets[1].socket # None
    /\ SocketStep(socketAbort(discover_sockets[1]), FALSE)

\* the collect timer fires and __collect starts: it returns before the loop
\* when the socket is gone or is a QUdpSocket
CollectEnter ==
    /\ ~collecting
    /\ discover_sockets[1].collect_timer
    /\ SocketStep([discover_sockets[1] EXCEPT !.collect_timer = FALSE],
                  discover_sockets[1].socket \notin {None, "QUdpSocket"})

\* recvfrom returns a datagram before its timeout: dataReady is emitted and
\* the loop goes on
CollectRecv ==
    /\ collecting
    /\ \E reply \in Replies :
           DataStep(reply, onData(CurPlugin, reply.msg, tokens))

\* recvfrom raises socket.timeout or a ConnectionError: break
CollectTimeout ==
    /\ collecting
    /\ SocketStep(discover_sockets[1], FALSE)

\* one iteration of the loop: recvfrom returns or raises within its timeout
CollectLoop == CollectRecv \/ CollectTimeout

\* a bound raw socket of a started plugin, the device table empty
InitCollect ==
    /\ windows = TRUE
    /\ discover_timer = TRUE
    /\ discover_sockets = <<bind([windows |-> TRUE])>>
    /\ preference = "t1"
    /\ collecting = FALSE
    /\ tokens = "t1"
    /\ healthy = FALSE
    /\ token = ""
    /\ connectionState = "Closed"
    /\ authenticationState = "NotAuthenticated"
    /\ sending_gcode = FALSE
    /\ progress_visible = FALSE
    /\ progress_timer = FALSE
    /\ need_auth_visible = FALSE
    /\ need_auth_timer = FALSE
    /\ requests = [k \in Kinds |-> 0]
    /\ jobs = 0
    /\ last = [op |-> "init", kind |-> "-", code |-> NoCode, body |-> "-",
               issued |-> <<>>, shown |-> {}, emitted |-> {},
               repeat |-> FALSE]
    /\ devices = [id \in {} |-> {}]
    /\ added = [id \in {} |-> 0]
    /\ discovered = {}
    /\ lastData = [reply |-> NoReply, created |-> {}, raised |-> FALSE]

NextCollect ==
    \/ SocketDiscover
    \/ SocketAbort
    \/ CollectEnter
    \/ CollectRecv
    \/ CollectTimeout

\* the Qt event loop runs the collect timer once it is started, and every
\* recvfrom of the loop returns or raises within the 0.2 s of settimeout
FairCollect == WF_vars(CollectEnter) /\ WF_vars(CollectLoop)

SpecCollect == InitCollect /\ [][NextCollect]_vars /\ FairCollect


-----------------------------------------------------------------------------
(* Start, stop and the discovery tick of SM2OutputDeviceManager, which     *)
(* binds one QUdpSocket per interface address when it is constructed and   *)
(* keeps it in its list from then on.  unbound counts the probes a handler *)
(* wrote to a socket that was not in BoundState.                           *)

CurManagerLife ==
    [discover_timer |-> discover_timer,
     discover_sockets |-> discover_sockets,
     tokens |-> tokens,
     preference |-> preference,
     token |-> token,
     probes |-> 0, unbound |-> 0, aborted |-> 0, wrote |-> FALSE]

\* the socket of __init__ after socket.bind(ipAddress)
managerSocket == [state |-> "BoundState", address |-> "ip"]

\* QUdpSocket.abort
managerAbort(sock) == [sock EXCEPT !.state = "UnconnectedState"]

\* QUdpSocket.writeDatagram: on a socket in UnconnectedState Qt first binds
\* it to any address, which succeeds or fails
writeDatagram(sock, implicit) ==
    IF sock.state = "BoundState" THEN sock
    ELSE IF implicit THEN [state |-> "BoundState", address |-> "any"]
    ELSE sock

\* SM2OutputDeviceManager._saveTokens for the device of the table
managerSaveTokens(q) ==
    LET new == saveTokens(q.tokens, q.token)
    IN  IF new # q.tokens
        THEN [q EXCEPT !.tokens = new, !.preference = new, !.wrote = TRUE]
        ELSE q

\* _onDiscovering: the probe on every socket of the list, then _saveTokens
onDiscovering(q, implicit) ==
    LET socks == q.discover_sockets
        q1 == [q EXCEPT
                  !.probes = @ + Len(socks),
                  !.unbound = @ + Cardinality({i \in DOMAIN socks :
                                      socks[i].state # "BoundState"}),
                  !.discover_sockets =
                      [i \in DOMAIN socks |-> writeDatagram(socks[i], implicit)]]
    IN  managerSaveTokens(q1)

\* SM2OutputDeviceManager.start
managerStart(q, implicit) ==
    IF ~q.discover_timer
    THEN [onDiscovering(q, implicit) EXCEPT !.discover_timer = TRUE]
    ELSE q

\* SM2OutputDeviceManager.stop: the sockets stay in the list
managerStop(q) ==
    managerSaveTokens(
        [q EXCEPT !.discover_sockets =
                      [i \in DOMAIN @ |-> managerAbort(@[i])],
                  !.aborted = Len(q.discover_sockets),
                  !.discover_timer = FALSE])

ManagerLifeOps == {"start", "stop", "tick", "startDiscovery"}

ManagerLifeEvent(op, q) ==
    [op |-> op, kind |-> "-", code |-> NoCode, body |-> "-",
     issued |-> <<>>, shown |-> {}, emitted |-> {}, repeat |-> FALSE,
     probes |-> q.probes, unbound |-> q.unbound, aborted |-> q.aborted,
     wrote |-> q.wrote]

\* the variables after a handler of the manager has run
ManagerLifeStep(op, q) ==
    /\ discover_timer' = q.discover_timer
    /\ discover_sockets' = q.discover_sockets
    /\ tokens' = q.tokens
    /\ preference' = q.preference
    /\ last' = ManagerLifeEvent(op, q)
    /\ UNCHANGED <<sessionVars, healthy, pluginVars, windows, collecting>>

\* globalContainerStackChanged
ManagerStart ==
    \E implicit \in BOOLEAN :
        ManagerLifeStep("start", managerStart(CurManagerLife, implicit))

\* applicationShuttingDown, or the host stops the plugin
ManagerStop == ManagerLifeStep("stop", managerStop(CurManagerLife))

\* _discover_timer fires
ManagerTick ==
    /\ discover_timer
    /\ \E implicit \in BOOLEAN :
           ManagerLifeStep("tick", onDiscovering(CurManagerLife, implicit))

\* the output device manager asks for a discovery
ManagerStartDiscovery ==
    \E implicit \in BOOLEAN :
        ManagerLifeStep("startDiscovery",
                        onDiscovering(CurManagerLife, implicit))

\* readyRead of a bound socket: the reply of the known printer reaches
\* addOutputDevice
ManagerRead ==
    /\ \E i \in DOMAIN discover_sockets :
           discover_sockets[i].state = "BoundState"
    /\ Discovered
    /\ last'.body \in {"IDLE", "RUNNING"}

\* the session of the device, with at most MaxQuiet requests in flight
ManagerSession ==
    /\ Next
    /\ InFlight([requests |-> requests']) <= MaxQuiet
    /\ LifeAnswer(last')

\* the manager as constructed: its socket bound, the timer not started, the
\* store loaded from the preference, and the printer already in the table
InitManagerLifecycle ==
    /\ windows = FALSE
    /\ discover_timer = FALSE
    /\ discover_sockets = <<managerSocket>>
    /\ preference \in {NoEntry, "t1"}
    /\ collecting = FALSE
    /\ tokens = preference
    /\ healthy = FALSE
    /\ token = IF tokens = NoEntry THEN "" ELSE tokens
    /\ connectionState = "Closed"
    /\ authenticationState = "NotAuthenticated"
    /\ sending_gcode = FALSE
    /\ progress_visible = FALSE
    /\ progress_timer = FALSE
    /\ need_auth_visible = FALSE
    /\ need_auth_timer = FALSE
    /\ requests = [k \in Kinds |-> 0]
    /\ jobs = 0
    /\ last = [op |-> "init", kind |-> "-", code |-> NoCode, body |-> "-",
               issued |-> <<>>, shown |-> {}, emitted |-> {},
               repeat |-> FALSE]
    /\ devices = (DeviceId :> newDevice(DeviceId, <<"a1">>, token))
    /\ added = (DeviceId :> 1)
    /\ discovered = {}
    /\ lastData = [reply |-> NoReply, created |-> {}, raised |-> FALSE]

NextManagerLifecycle ==
    \/ ManagerStart
    \/ ManagerStop
    \/ ManagerTick
    \/ ManagerStartDiscovery
    \/ ManagerRead
    \/ ManagerSession

SpecManagerLifecycle == InitManagerLifecycle /\ [][NextManagerLifecycle]_vars

-----------------------------------------------------------------------------
(* Properties of the upload single-flight                                  *)

IsReply(e, kind) == e.op = "reply" /\ e.kind = kind

\* the requests of a kind that the last handler sent
Issued(e, kind) == {i \in DOMAIN e.issued : e.issued[i].kind = kind}

\* a reply that is not a success: an HTTP status from 400 on, or none at all
FailureCode(code) == code = NoCode \/ code >= 400

\* C1: while an accepted requestWrite is pending (_sending_gcode set), a
\* further requestWrite call is rejected: it starts no write job and sends
\* no HTTP request.
C1_PendingRequestWriteRejected ==
    [][(sending_gcode /\ last'.op = "requestWrite")
          => (jobs' = jobs /\ requests' = requests /\ last'.issued = <<>>)]_vars

\* C2: at most one POST /upload is in flight in every reachable state.
C2_AtMostOneUploadInFlight == requests["upload"] <= 1

\* an upload is in flight while a poll answered 200 IDLE moved the session
\* back to Connected, and the handler sent nothing
C2_Witness ==
    /\ requests["upload"] = 1
    /\ IsReply(last, "status") /\ last.code = 200 /\ last.body = "IDLE"
    /\ "connectionStateChanged" \in last.emitted
    /\ authenticationState = "Authenticated" /\ sending_gcode
    /\ last.issued = <<>>

\* C3: after a failed POST /upload (HTTP status from 400 on, or no HTTP
\* reply) has been processed, the failure has been reported, the progress
\* message is hidden, _sending_gcode is false, and /upload was not sent again.
C3_FailedUploadClearsPending ==
    (IsReply(last, "upload") /\ FailureCode(last.code))
        => /\ "Error" \in last.shown
           /\ ~progress_visible
           /\ ~sending_gcode
           /\ Issued(last, "upload") = {}

\* C4: a POST /upload reply with a status from 400 on is reported as a
\* failure; "Sent to <device>" and writeFinished come only with a success
\* status.
C4_OnlySuccessReportedAsSent ==
    IsReply(last, "upload")
        => /\ (last.code >= 400 => "Error" \in last.shown)
           /\ ("Sent to" \in last.shown \/ "writeFinished" \in last.emitted)
                 => last.code \in 200..299

\* C5: every POST /upload leaves from a state with connectionState Connected,
\* authState Authenticated, a non-empty token and a pending upload.
C5_UploadOnlyWhenReady ==
    \A i \in Issued(last, "upload") :
        /\ last.issued[i].connectionState = "Connected"
        /\ last.issued[i].authenticationState = "Authenticated"
        /\ Truthy(last.issued[i].token)
        /\ last.issued[i].sending_gcode

\* the handler of a 200 IDLE poll has just sent the upload
C5_Witness ==
    /\ IsReply(last, "status") /\ last.code = 200 /\ last.body = "IDLE"
    /\ Issued(last, "upload") # {}
    /\ requests["upload"] = 1

\* C6: a POST /connect answered with 403 while the token is non-empty clears
\* the token and sends exactly one further POST /connect, with an empty token.
C6_Connect403RetriesOnce ==
    [][(IsReply(last', "connect") /\ last'.code = 403 /\ Truthy(token))
          => /\ token' = ""
             /\ Cardinality(Issued(last', "connect")) = 1
             /\ \A i \in Issued(last', "connect") : last'.issued[i].token = ""]_vars

\* C7: after a GET /status reply 204 has been processed authState is
\* AuthenticationRequested and the auth prompt with its poll timer is active;
\* after a reply 200 authState is Authenticated and the prompt and its timer
\* are off.
C7_StatusReplySetsPrompt ==
    /\ (IsReply(last, "status") /\ last.code = 204)
          => /\ authenticationState = "AuthenticationRequested"
             /\ need_auth_visible /\ need_auth_timer
    /\ (IsReply(last, "status") /\ last.code = 200)
          => /\ authenticationState = "Authenticated"
             /\ ~need_auth_visible /\ ~need_auth_timer

\* C8: after a GET /status reply 401 the session holds no token and no upload
\* is pending, and whenever authState is AuthenticationDenied the session holds
\* no token.
C8_DeniedClearsToken ==
    /\ (IsReply(last, "status") /\ last.code = 401)
          => (~Truthy(token) /\ ~sending_gcode)
    /\ authenticationState = "AuthenticationDenied" => ~Truthy(token)

\* connectionState that the status of a 200 reply maps to
MappedState(status, before) ==
    IF status = "IDLE" THEN "Connected"
    ELSE IF status \in {"RUNNING", "PAUSED", "STOPPED"} THEN "Busy"
    ELSE before

\* C9: a GET /status reply 200 with status S sets authState to Authenticated
\* and connectionState to Connected for IDLE, to Busy for RUNNING, PAUSED and
\* STOPPED, and leaves connectionState alone for any other S.
C9_StatusMapping ==
    [][(IsReply(last', "status") /\ last'.code = 200)
          => /\ authenticationState' = "Authenticated"
             /\ connectionState' = MappedState(last'.body, connectionState)]_vars

\* the first poll of a fresh session answered 200 IDLE: Closed to Connected
C9_Witness ==
    /\ IsReply(last, "status") /\ last.code = 200 /\ last.body = "IDLE"
    /\ last.emitted = {"authenticationStateChanged", "connectionStateChanged"}
    /\ connectionState = "Connected"
    /\ authenticationState = "Authenticated"

\* a poll answered 200 STOPPED has moved a Connected session to Busy
C9_WitnessBusy ==
    /\ IsReply(last, "status") /\ last.code = 200 /\ last.body = "STOPPED"
    /\ "connectionStateChanged" \in last.emitted
    /\ connectionState = "Busy"

-----------------------------------------------------------------------------
(* Properties of failure handling and of the two pollers                   *)

SessionKinds == {"connect", "status", "upload"}

\* C11: after a /connect, /status or /upload request has failed without any
\* HTTP response, authState is NotAuthenticated and connectionState is Error.
C11_TransportFailureSetsError ==
    (last.op = "reply" /\ last.kind \in SessionKinds /\ last.code = NoCode)
        => /\ authenticationState = "NotAuthenticated"
           /\ connectionState = "Error"

\* C12: a requestWrite called while connectionState is Busy sends no request,
\* starts no write job and leaves _sending_gcode, the token, authState and
\* connectionState as they are.
C12_BusyRequestWriteRejected ==
    [][(connectionState = "Busy" /\ last'.op = "requestWrite")
          => /\ last'.issued = <<>> /\ requests' = requests
             /\ jobs' = jobs /\ "writeStarted" \notin last'.emitted
             /\ sending_gcode' = sending_gcode
             /\ token' = token
             /\ authenticationState' = authenticationState
             /\ connectionState' = connectionState]_vars

\* requestWrite has just been refused on a Busy session that shows neither
\* the progress message nor the auth prompt
C12_Witness ==
    /\ last.op = "requestWrite"
    /\ "Unable to upload" \in last.shown
    /\ connectionState = "Busy"
    /\ ~progress_visible /\ ~need_auth_visible

\* requestWrite would be accepted: the session is not Busy and neither
\* message is visible
Acceptable ==
    /\ connectionState # "Busy"
    /\ ~progress_visible
    /\ ~need_auth_visible

\* the session is in a state that a failure or a rejection left behind
AfterFailure ==
    \/ connectionState = "Busy"
    \/ connectionState = "Closed" /\ last.op = "reply" /\ "Error" \in last.shown
    \/ authenticationState = "AuthenticationDenied"
    \/ last.op = "reply" /\ last.kind = "upload" /\ FailureCode(last.code)

\* C13: from a state that followed a failure or a rejection (Busy, Closed
\* after an HTTP error, AuthenticationDenied, a failed upload), once the
\* printer reports IDLE and answers normally the session eventually reaches
\* a state in which requestWrite is accepted.
C13_NoDeadEnd == (healthy /\ AfterFailure) ~> Acceptable

\* C14: while authState is AuthenticationRequested the poll timer of the auth
\* prompt is running, whatever happened since the state was entered.
C14_AuthRequestedKeepsPolling ==
    authenticationState = "AuthenticationRequested" => need_auth_timer

\* C15: while an upload is pending or in progress (_sending_gcode set) the
\* heartbeat timer of the progress message is running.
C15_HeartbeatWhilePending == sending_gcode => progress_timer

-----------------------------------------------------------------------------
(* Properties of the discovery replies                                     *)

\* C16: a discovery reply without a model: segment or without a status:
\* segment creates no device, changes no device of the table, and the
\* handler does not raise.
C16_MalformedReplyIgnored ==
    [][(lastData'.reply.model = Absent \/ lastData'.reply.status = Absent)
          => /\ devices' = devices
             /\ added' = added
             /\ ~lastData'.raised]_vars

\* a reply with name, address, a model of the product family and a status
ValidCore(r) ==
    /\ r.address # Absent
    /\ r.model # Absent /\ StartsWith(r.model, FamilyPrefix)
    /\ r.status # Absent

\* a reply "{name}@{address}|model:{model}|status:{status}" and nothing else
ValidReply(r) == ValidCore(r) /\ r.extra = Absent

\* C17: the device table holds at most one device per identity (name and
\* model), and addOutputDevice has been called exactly once for each.
C17_OneDevicePerIdentity ==
    /\ \A a, b \in DOMAIN devices :
           (devices[a].name = devices[b].name
               /\ devices[a].model = devices[b].model) => a = b
    /\ DOMAIN added = DOMAIN devices
    /\ \A id \in DOMAIN added : added[id] = 1

\* C18: a valid reply for an identity that is already in the table sets the
\* device's address to the address of the reply and its connectionState to
\* what the status of the reply maps to.
C18_LastSeenWins ==
    [][\A id \in DOMAIN devices :
          (ValidReply(lastData'.reply)
              /\ id = deviceId(lastData'.reply.name, lastData'.reply.model))
          => /\ devices'[id].address = lastData'.reply.address
             /\ devices'[id].connectionState =
                    MappedState(statusOf(lastData'.reply.status),
                                devices[id].connectionState)]_vars

\* C19: after a valid reply the table holds a device under the id
\* "{name}@{model}", and the name and the model that the device split from
\* its id are the name and the model of the reply.
C19_IdentityRoundTrip ==
    ValidReply(lastData.reply)
        => LET id == deviceId(lastData.reply.name, lastData.reply.model)
           IN  /\ lastData.created \subseteq {id}
               /\ id \in DOMAIN devices
               /\ devices[id].name = lastData.reply.name
               /\ devices[id].model = lastData.reply.model

\* C19 as amended: the same for the replies whose model contains no "@".
C19_RoundTripModelWithoutAt ==
    (ValidReply(lastData.reply) /\ ~Contains(lastData.reply.model, AT))
        => LET id == deviceId(lastData.reply.name, lastData.reply.model)
           IN  /\ lastData.created \subseteq {id}
               /\ id \in DOMAIN devices
               /\ devices[id].name = lastData.reply.name
               /\ devices[id].model = lastData.reply.model

\* a valid reply whose name contains "@" has just created its device
C19_Witness ==
    /\ ValidReply(lastData.reply)
    /\ lastData.reply.name = <<"n", AT, "m">>
    /\ lastData.created = {deviceId(<<"n", AT, "m">>, lastData.reply.model)}

\* C20: a reply with valid name, model and status and one further segment
\* changes the device table exactly as the reply without that segment does,
\* and the handler does not raise.
C20_ExtraSegmentsIgnored ==
    [][(ValidCore(lastData'.reply) /\ lastData'.reply.extra # Absent)
          => /\ ~lastData'.raised
             /\ devices' = onData(CurPlugin, lastData'.reply.base, tokens).devices
             /\ added' = onData(CurPlugin, lastData'.reply.base, tokens).added]_vars

-----------------------------------------------------------------------------
(* Properties of the model filter and of the token store                   *)

\* C21: a reply handler adds a device to the table, or reports one with
\* addOutputDevice, only when the model of the reply starts with
\* "Snapmaker 2".
C21_OnlyFamilyModelsAdded ==
    [][(DOMAIN devices' # DOMAIN devices \/ added' # added
            \/ lastData'.created # {})
          => StartsWith(lastData'.reply.model, FamilyPrefix)]_vars

\* a reply with a model of the family has created a device, and the table
\* holds no device for the other model
C21_Witness ==
    /\ lastData.created # {}
    /\ StartsWith(lastData.reply.model, FamilyPrefix)
    /\ \A id \in DOMAIN devices : StartsWith(devices[id].model, FamilyPrefix)

\* C22: a device that a reply has just created holds the token that the
\* store keeps for its id, and the empty string when the store has none.
C22_TokenFromStoreOnCreation ==
    [][\A id \in lastData'.created :
          devices'[id].token =
              IF id = DeviceId /\ tokens # NoEntry THEN tokens ELSE ""]_vars

\* the table holds a device created with the stored token and one created
\* without any
C22_Witness ==
    /\ DeviceId \in DOMAIN devices
    /\ devices[DeviceId].token = tokens /\ tokens \in Tokens
    /\ \E id \in DOMAIN devices : id # DeviceId /\ devices[id].token = ""

-----------------------------------------------------------------------------
(* Properties of the token store and of stop                               *)

\* the handlers that end with _saveTokens
SaveOps == {"tick", "startDiscovery", "stop"}

\* self._tokens.get(id, "") for the device id
StoredValue == IF tokens = NoEntry THEN "" ELSE tokens

\* C23: when _saveTokens has run and the token of the device differed from
\* the stored value, the store entry is the token of the device and the
\* preference is the store; when it did not differ, nothing was written.
C23_SaveTakesSessionToken ==
    [][(last'.op \in SaveOps /\ DeviceId \in DOMAIN devices)
          => IF token # StoredValue
             THEN tokens' = token /\ preference' = tokens'
             ELSE ~last'.wrote /\ tokens' = tokens
                      /\ preference' = preference]_vars

C25_StopSilencesDiscovery ==
    [][/\ last'.op = "stop"
           => /\ ~discover_timer'
              /\ discover_sockets' = <<>>
              /\ last'.aborted = Len(discover_sockets)
              /\ tokens' # NoEntry => preference' = tokens'
       /\ (last.op = "stop" /\ last'.op \in LifeOps \ {"start"})
           => last'.probes = 0]_vars

\* C26: when stop has returned, no timer is active: not the discovery timer,
\* no collect timer, and neither poll timer of the device.
C26_NoTimerAfterStop ==
    last.op = "stop"
        => /\ ~discover_timer
           /\ \A i \in DOMAIN discover_sockets :
                  ~discover_sockets[i].collect_timer
           /\ ~need_auth_timer
           /\ ~progress_timer

\* C27: every run of the loop of __collect ends, and a __collect that starts
\* on an aborted socket does not enter the loop.
C27_CollectTerminates ==
    /\ collecting ~> ~collecting
    /\ [][(discover_sockets[1].collect_timer
              /\ ~discover_sockets'[1].collect_timer
              /\ discover_sockets[1].socket = None) => ~collecting']_vars

-----------------------------------------------------------------------------
(* Properties of the upload and of the end of the session                  *)

\* C28: POST /upload is sent only when no write job is running, that is when
\* the job of the pending request has finished writing _gcode_stream.
C28_UploadAfterWriteJob ==
    [][Issued(last', "upload") # {} => jobs' = 0]_vars

\* C29: when GET /status is answered 200 IDLE for a pending request whose
\* write job has finished and whose session holds a token, and the upload
\* has not started yet, the handler of that reply sends POST /upload, once.
C29_UploadOnIdle ==
    [][(/\ IsReply(last', "status") /\ last'.code = 200
        /\ last'.body = "IDLE"
        /\ sending_gcode /\ jobs = 0 /\ Truthy(token)
        /\ ~progress_visible)
          => Cardinality(Issued(last', "upload")) = 1]_vars

\* C30: the handler of a 200 reply to POST /upload hides the progress
\* message, clears _sending_gcode and sends POST /disconnect exactly when
\* the token is not empty; when the reply to /disconnect, success or error,
\* has been handled and no request is in flight, connectionState is Closed,
\* and the next handler leaves it Closed unless it is requestWrite.
C30_SessionEndsClosed ==
    [][/\ (IsReply(last', "upload") /\ last'.code = 200)
           => /\ ~progress_visible'
              /\ ~sending_gcode'
              /\ Issued(last', "disconnect") # {} <=> Truthy(token)
       /\ (IsReply(last', "disconnect") /\ InFlight([requests |-> requests']) = 0)
           => connectionState' = "Closed"
       /\ (/\ IsReply(last, "disconnect") /\ InFlight(Cur) = 0
           /\ connectionState = "Closed" /\ last'.op # "requestWrite")
           => connectionState' = "Closed"]_vars


-----------------------------------------------------------------------------
(* Properties of the auth prompt and of the session token                  *)

\* C31: the auth prompt is visible, or its poll timer running, only while
\* authState is AuthenticationRequested: every change of authState away from
\* AuthenticationRequested hides the prompt and stops its timer.
C31_PromptOnlyWhileRequested ==
    (need_auth_visible \/ need_auth_timer)
        => authenticationState = "AuthenticationRequested"

\* C32: under SM2OutputDeviceManager a discovery reply for a known device
\* (addOutputDevice) leaves the token of the session as it was: the token
\* obtained from POST /connect, or cleared by a refusal, is never replaced by
\* the value of the token store.
C32_DiscoveryKeepsSessionToken ==
    [][last'.op = "discovered" /\ token \in Tokens \cup {""}
           => token' = token]_vars

\* C33: the token of the session is always a string, possibly empty: after a
\* POST /connect reply 200 it is the token of the reply body, and a body
\* without a token leaves a string too, so that _queryParams can encode it
\* for every later request.
C33_TokenIsString ==
    /\ token \in Tokens \cup {""}
    /\ ~queryParamsRaises(Cur)
    /\ (IsReply(last, "connect") /\ last.code = 200 /\ last.body \in Tokens)
          => token = last.body

-----------------------------------------------------------------------------
(* Properties of the discovery sockets                                     *)

\* C34: over start, stop, startDiscovery and the ticks of the discovery
\* timer, a probe is written only to a socket that is bound: none to a
\* socket that stop has aborted, and the first broadcast after stop and
\* start goes out on sockets bound anew.
C34_ProbesOnBoundSockets ==
    [][last'.op \in ManagerLifeOps => last'.unbound = 0]_vars

=============================================================================
